---- MODULE Spec2Model ----
(***************************************************************************)
(* Model of the gobind Objective-C generator (objcGen: init, genH, genM,   *)
(* funcSummary, genFunc, genStructH, genStructM, objcType) and of the      *)
(* generated Go dispatcher for package testpkg (go_testpkg.go).            *)
(*                                                                         *)
(* Emitted text is modelled by its content: a #define is a record of the   *)
(* code table, a generated stub body is the sequence of its statements.    *)
(***************************************************************************)
EXTENDS Integers, Sequences, FiniteSets, TLC

(***************************************************************************)
(* Bounds of the model.                                                    *)
(***************************************************************************)
MaxFuncs == 2
MaxFields == 2
MaxMethods == 2
MaxRuns == 2
MaxResults == 3
WideCount == 17
MaxObjs == 2
MaxWrappers == 2

SeqsUpTo(S, n) == UNION {[1..k -> S] : k \in 0..n}

RECURSIVE Flatten(_)
Flatten(ss) == IF ss = <<>> THEN <<>> ELSE Head(ss) \o Flatten(Tail(ss))

Range(s) == {s[i] : i \in 1..Len(s)}

(***************************************************************************)
(* The declaration model (go/types objects of the package being bound).    *)
(***************************************************************************)
Var(name, typ) == [name |-> name, typ |-> typ]

Obj(kind, name, exported, params, results, fields, methods) ==
    [kind |-> kind, name |-> name, exported |-> exported, params |-> params,
     results |-> results, fields |-> fields, methods |-> methods]

FuncObj(name, exported, params, results) ==
    Obj("func", name, exported, params, results, <<>>, <<>>)

StructObj(name, fields, methods) ==
    Obj("struct", name, TRUE, <<>>, <<>>, fields, methods)

ConstObj(name) == Obj("const", name, TRUE, <<>>, <<>>, <<>>, <<>>)

Field(name, exported, typ) == [name |-> name, exported |-> exported, typ |-> typ]

isErrorType(typ) == typ = "error"

exportedFields(t) == SelectSeq(t.fields, LAMBDA f : f.exported)

exportedMethodSet(t) == t.methods

paramRE_Match(name) == name \in {"p0", "p1", "p2", "p3"}

(***************************************************************************)
(* objcGen.objcType: the surface type, and the diagnostics one call        *)
(* appends to g.err.                                                       *)
(***************************************************************************)
BasicTypes == {"bool", "int", "int32", "int64", "float64", "string"}

capitalize(n) ==
    CASE n = "testpkg" -> "Testpkg"
      [] n = "go" -> "Go"
      [] OTHER -> n

namePrefixOf(pkgName) == "Go" \o capitalize(pkgName)

objcType(pkgName, typ) ==
    CASE isErrorType(typ) -> "NSError*"
      [] typ = "bool" -> "BOOL"
      [] typ = "int" -> "int"
      [] typ = "int32" -> "int32_t"
      [] typ = "int64" -> "int64_t"
      [] typ = "float64" -> "double"
      [] typ = "string" -> "NSString*"
      [] typ = "[]byte" -> "NSData*"
      [] typ = "*S" -> namePrefixOf(pkgName) \o "S" \o "*"
      [] OTHER -> "TODO"

objcTypeErr(typ) ==
    IF isErrorType(typ) \/ typ \in BasicTypes \/ typ \in {"[]byte", "*S"}
    THEN <<>>
    ELSE << <<"unsupported type", typ>> >>

seqType(typ) ==
    CASE typ = "bool" -> "Bool"
      [] typ = "int" -> "Int"
      [] typ = "int32" -> "Int32"
      [] typ = "int64" -> "Int64"
      [] typ = "float64" -> "Float64"
      [] typ = "string" -> "String"
      [] typ = "error" -> "String"
      [] typ = "[]byte" -> "ByteArray"
      [] typ = "*S" -> "Ref"
      [] OTHER -> "Unsupported"

objcGen_seqType(typ) ==
    LET s == seqType(typ) IN IF s = "String" THEN "UTF8" ELSE s

(***************************************************************************)
(* objcGen.funcSummary: the signature normalizer.  A nil result is the    *)
(* record with nil = TRUE; errs are the diagnostics the call appends.      *)
(***************************************************************************)
paramInfo(typ, name) == [typ |-> typ, name |-> name]

NilSummary(errs) ==
    [nil |-> TRUE, name |-> "", ret |-> "", params |-> <<>>, retParams |-> <<>>,
     errs |-> errs]

Summary(name, ret, params, retParams, errs) ==
    [nil |-> FALSE, name |-> name, ret |-> ret, params |-> params,
     retParams |-> retParams, errs |-> errs]

retName(v) == IF v.name = "" \/ paramRE_Match(v.name) THEN "ret0_" ELSE v.name

funcSummary_AcceptsAnySecond(pkgName, obj) ==
    LET params == [i \in 1..Len(obj.params) |->
                      paramInfo(obj.params[i].typ, obj.params[i].name)]
        res == obj.results
    IN  CASE Len(res) = 0 -> Summary(obj.name, "void", params, <<>>, <<>>)
          [] Len(res) = 1 ->
               IF isErrorType(res[1].typ)
               THEN Summary(obj.name, "BOOL", params,
                            <<paramInfo(res[1].typ, "error")>>, <<>>)
               ELSE Summary(obj.name, objcType(pkgName, res[1].typ), params,
                            <<paramInfo(res[1].typ, retName(res[1]))>>,
                            objcTypeErr(res[1].typ))
          [] Len(res) = 2 ->
               Summary(obj.name, "BOOL", params,
                       <<paramInfo(res[1].typ, retName(res[1])),
                         paramInfo(res[2].typ, "error")>>, <<>>)
          [] OTHER ->
               NilSummary(<< <<"too many result values", obj.name>> >>)

funcSummary(pkgName, obj) ==
    LET params == [i \in 1..Len(obj.params) |->
                      paramInfo(obj.params[i].typ, obj.params[i].name)]
        res == obj.results
    IN  CASE Len(res) = 0 -> Summary(obj.name, "void", params, <<>>, <<>>)
          [] Len(res) = 1 ->
               IF isErrorType(res[1].typ)
               THEN Summary(obj.name, "BOOL", params,
                            <<paramInfo(res[1].typ, "error")>>, <<>>)
               ELSE Summary(obj.name, objcType(pkgName, res[1].typ), params,
                            <<paramInfo(res[1].typ, retName(res[1]))>>,
                            objcTypeErr(res[1].typ))
          [] Len(res) = 2 ->
               IF ~isErrorType(res[2].typ)
               THEN NilSummary(
                      << <<"second result value must be of type error", obj.name>> >>)
               ELSE Summary(obj.name, "BOOL", params,
                            <<paramInfo(res[1].typ, retName(res[1])),
                              paramInfo(res[2].typ, "error")>>, <<>>)
          [] OTHER ->
               NilSummary(<< <<"too many result values", obj.name>> >>)

returnsVal(s) == Len(s.retParams) = 1 /\ ~isErrorType(s.retParams[1].typ)

(* The diagnostics of the objcType calls asFunc and asMethod make. *)
asFuncErrs(s) ==
    Flatten([i \in 1..Len(s.params) |-> objcTypeErr(s.params[i].typ)])
    \o (IF returnsVal(s) THEN <<>>
        ELSE Flatten([i \in 1..Len(s.retParams) |-> objcTypeErr(s.retParams[i].typ)]))

(* The parameter list of the emitted prototype: inputs, then out-parameters. *)
asFunc(pkgName, s) ==
    [ret |-> s.ret, name |-> s.name,
     params |-> [i \in 1..Len(s.params) |->
                    <<objcType(pkgName, s.params[i].typ), s.params[i].name>>]
                \o (IF returnsVal(s) THEN <<>>
                    ELSE [i \in 1..Len(s.retParams) |->
                            <<objcType(pkgName, s.retParams[i].typ) \o "*",
                              s.retParams[i].name>>])]

asMethod(pkgName, s) == asFunc(pkgName, s)

asMethodErrs(s) == asFuncErrs(s)

(***************************************************************************)
(* objcGen.genFunc: the statements of one caller stub, in emitted order.   *)
(***************************************************************************)
Stmt(op, st, arg) == [op |-> op, st |-> st, arg |-> arg]

genFuncWrites_ReceiverLast(s, isMethod) ==
    [i \in 1..Len(s.params) |->
       LET st == objcGen_seqType(s.params[i].typ)
       IN  IF st = "Ref" THEN Stmt("write", st, s.params[i].name \o ".ref")
           ELSE Stmt("write", st, s.params[i].name)]
    \o (IF isMethod THEN <<Stmt("write", "Ref", "self.ref")>> ELSE <<>>)

genFuncWrites(s, isMethod) ==
    (IF isMethod THEN <<Stmt("write", "Ref", "self.ref")>> ELSE <<>>)
    \o [i \in 1..Len(s.params) |->
          LET st == objcGen_seqType(s.params[i].typ)
          IN  IF st = "Ref" THEN Stmt("write", st, s.params[i].name \o ".ref")
              ELSE Stmt("write", st, s.params[i].name)]

genFuncReads(s) ==
    IF returnsVal(s)
    THEN LET p == s.retParams[1]
         IN  IF objcGen_seqType(p.typ) # "Ref"
             THEN <<Stmt("read", objcGen_seqType(p.typ), p.name)>>
             ELSE <<Stmt("read", "Ref", p.name \o "_ref"),
                    Stmt("wrap", "Ref", p.name)>>
    ELSE Flatten([i \in 1..Len(s.retParams) |->
           LET p == s.retParams[i]
           IN  IF isErrorType(p.typ)
               THEN <<Stmt("read", "UTF8", "_" \o p.name),
                      Stmt("storeError", "UTF8", p.name)>>
               ELSE IF objcGen_seqType(p.typ) # "Ref"
               THEN <<Stmt("read", objcGen_seqType(p.typ), p.name \o "_val"),
                      Stmt("storeOut", objcGen_seqType(p.typ), p.name)>>
               ELSE <<Stmt("read", "Ref", p.name \o "_ref"),
                      Stmt("storeOutWrap", "Ref", p.name)>>])

genFuncReturn(s) ==
    IF Len(s.retParams) > 0
    THEN LET p == s.retParams[Len(s.retParams)]
         IN  IF isErrorType(p.typ)
             THEN <<Stmt("returnIsEmpty", "", "_" \o p.name)>>
             ELSE <<Stmt("return", "", p.name)>>
    ELSE <<>>

genFunc_FreesBeforeReads(pkgDesc, callDesc, s, isMethod) ==
    <<Stmt("init", "", "in_"), Stmt("init", "", "out_")>>
    \o genFuncWrites(s, isMethod)
    \o <<Stmt("send", pkgDesc, callDesc)>>
    \o <<Stmt("free", "", "in_"), Stmt("free", "", "out_")>>
    \o genFuncReads(s)
    \o genFuncReturn(s)

genFunc(pkgDesc, callDesc, s, isMethod) ==
    <<Stmt("init", "", "in_"), Stmt("init", "", "out_")>>
    \o genFuncWrites(s, isMethod)
    \o <<Stmt("send", pkgDesc, callDesc)>>
    \o genFuncReads(s)
    \o <<Stmt("free", "", "in_"), Stmt("free", "", "out_")>>
    \o genFuncReturn(s)

(* The diagnostics of the objcType calls genFunc makes (result types only). *)
genFuncErrs(s) ==
    IF returnsVal(s) THEN objcTypeErr(s.retParams[1].typ)
    ELSE Flatten([i \in 1..Len(s.retParams) |->
           IF isErrorType(s.retParams[i].typ) THEN <<>>
           ELSE objcTypeErr(s.retParams[i].typ)])

(***************************************************************************)
(* The numbers the #define lines denote.  "%x" formats i as hexadecimal    *)
(* digits; the C compiler reads "0x" <digits of i> <two fixed digits>.     *)
(***************************************************************************)
RECURSIVE HexDigits(_)
HexDigits(n) == IF n < 16 THEN <<n>> ELSE HexDigits(n \div 16) \o <<n % 16>>

RECURSIVE ParseHex(_)
ParseHex(ds) ==
    IF ds = <<>> THEN 0
    ELSE 16 * ParseHex(SubSeq(ds, 1, Len(ds) - 1)) + ds[Len(ds)]

CallCode_ZeroBased(i) == i

(* genM: "#define _CALL_%s_ %d" with i+1; i is the 0-based range index. *)
CallCode(i) == i + 1

(* genStructM: "(0x%x0f)", "(0x%x1f)", "(0x%x0c)". *)
FieldGetCode(i) == ParseHex(HexDigits(i) \o <<0, 15>>)

FieldSetCode_SameAsGet(i) == ParseHex(HexDigits(i) \o <<0, 15>>)

FieldSetCode(i) == ParseHex(HexDigits(i) \o <<1, 15>>)

MethodCode_AsGetter(i) == ParseHex(HexDigits(i) \o <<0, 15>>)

MethodCode(i) == ParseHex(HexDigits(i) \o <<0, 12>>)

PkgDescriptor(pkgName) == pkgName

StructDescriptor(pkgName, name) == "go." \o pkgName \o "." \o name

Define(macro, desc, kind, name, code) ==
    [macro |-> macro, desc |-> desc, kind |-> kind, name |-> name, code |-> code]

StubRec(desc, kind, name, macro, isMethod, proto, ops) ==
    [desc |-> desc, kind |-> kind, name |-> name, macro |-> macro,
     isMethod |-> isMethod, proto |-> proto, ops |-> ops]

CallMacro(name) == "_CALL_" \o name \o "_"

StructMacro(pkgName, name) == "_GO_" \o pkgName \o "_" \o name

(***************************************************************************)
(* objcGen.init: the exported functions and type names of the scope, in    *)
(* scope order.  g.err is not touched.                                     *)
(***************************************************************************)
init_KeepsLists(g, pkg) ==
    [g EXCEPT !.pkgName = pkg.name,
              !.namePrefix = namePrefixOf(pkg.name),
              !.funcs = g.funcs \o SelectSeq(pkg.scope,
                                   LAMBDA o : o.exported /\ o.kind = "func"),
              !.names = g.names \o SelectSeq(pkg.scope,
                                   LAMBDA o : o.exported /\ o.kind = "struct")]

init(g, pkg) ==
    [g EXCEPT !.pkgName = pkg.name,
              !.namePrefix = namePrefixOf(pkg.name),
              !.funcs = SelectSeq(pkg.scope,
                                  LAMBDA o : o.exported /\ o.kind = "func"),
              !.names = SelectSeq(pkg.scope,
                                  LAMBDA o : o.exported /\ o.kind = "struct")]

NewGen == [pkgName |-> "", namePrefix |-> "", funcs |-> <<>>, names |-> <<>>,
           err |-> <<>>]

(* Index of the first nil summary, or 0. *)
FirstNil(sums) ==
    IF \A i \in 1..Len(sums) : ~sums[i].nil THEN 0
    ELSE CHOOSE i \in 1..Len(sums) : sums[i].nil /\ \A j \in 1..(i - 1) : ~sums[j].nil

(***************************************************************************)
(* objcGen.genStructM for one struct: its #defines, its stubs, the         *)
(* diagnostics it appends, and whether it dereferences a nil summary       *)
(* (s.asMethod(g) on the nil result of funcSummary panics).                *)
(***************************************************************************)
getterSummary(pkgName, f) ==
    Summary(f.name, objcType(pkgName, f.typ), <<>>, <<paramInfo(f.typ, "ret_")>>, <<>>)

setterSummary(f) ==
    Summary("set" \o f.name, "void", <<paramInfo(f.typ, "v")>>, <<>>, <<>>)

(* One emitted stub and the diagnostics of emitting it. *)
emitStub(desc, descMacro, kind, name, macro, s, isMethod, proto, asErrs) ==
    [stub |-> StubRec(desc, kind, name, macro, isMethod, proto,
                      genFunc(descMacro, macro, s, isMethod)),
     errs |-> s.errs \o asErrs \o genFuncErrs(s)]

genStructFields(pkgName, desc, dm, fields) ==
    [i \in 1..Len(fields) |->
       [defines |-> <<Define(dm \o "_FIELD_" \o fields[i].name \o "_GET_", desc,
                             "get", fields[i].name, FieldGetCode(i - 1)),
                      Define(dm \o "_FIELD_" \o fields[i].name \o "_SET_", desc,
                             "set", fields[i].name, FieldSetCode(i - 1))>>,
        get |-> emitStub(desc, dm \o "_DESCRIPTOR_", "get", fields[i].name,
                         dm \o "_FIELD_" \o fields[i].name \o "_GET_",
                         getterSummary(pkgName, fields[i]), TRUE,
                         asMethod(pkgName, getterSummary(pkgName, fields[i])),
                         asMethodErrs(getterSummary(pkgName, fields[i]))),
        set |-> emitStub(desc, dm \o "_DESCRIPTOR_", "set", fields[i].name,
                         dm \o "_FIELD_" \o fields[i].name \o "_SET_",
                         setterSummary(fields[i]), TRUE,
                         asMethod(pkgName, setterSummary(fields[i])),
                         asMethodErrs(setterSummary(fields[i]))),
        typErrs |-> objcTypeErr(fields[i].typ)]]

genStructMethods(pkgName, desc, dm, methods, sums, last) ==
    [i \in 1..last |->
       emitStub(desc, dm \o "_DESCRIPTOR_", "method", methods[i].name,
                dm \o "_" \o methods[i].name \o "_", sums[i], TRUE,
                asMethod(pkgName, sums[i]), asMethodErrs(sums[i]))]

genStructM_emit(desc, dm, methods, fs, ms, sums, bad) ==
    [defines |-> Flatten([i \in 1..Len(fs) |-> fs[i].defines])
                 \o [i \in 1..Len(methods) |->
                       Define(dm \o "_" \o methods[i].name \o "_", desc, "method",
                              methods[i].name, MethodCode(i - 1))],
     stubs |-> Flatten([i \in 1..Len(fs) |-> <<fs[i].get.stub, fs[i].set.stub>>])
               \o [i \in 1..Len(ms) |-> ms[i].stub],
     errs |-> Flatten([i \in 1..Len(fs) |->
                         fs[i].typErrs \o fs[i].get.errs \o fs[i].set.errs])
              \o Flatten([i \in 1..Len(ms) |-> ms[i].errs])
              \o (IF bad = 0 THEN <<>> ELSE sums[bad].errs),
     panic |-> bad # 0]

genStructM_with(pkgName, t, desc, dm, methods, sums, bad) ==
    genStructM_emit(desc, dm, methods,
                    genStructFields(pkgName, desc, dm, exportedFields(t)),
                    genStructMethods(pkgName, desc, dm, methods, sums,
                                     IF bad = 0 THEN Len(methods) ELSE bad - 1),
                    sums, bad)

genStructM_sums(pkgName, t, methods, sums) ==
    genStructM_with(pkgName, t, StructDescriptor(pkgName, t.name),
                    StructMacro(pkgName, t.name), methods, sums, FirstNil(sums))

genStructM(pkgName, t) ==
    genStructM_sums(pkgName, t, exportedMethodSet(t),
                    [i \in 1..Len(exportedMethodSet(t)) |->
                       funcSummary(pkgName, exportedMethodSet(t)[i])])

(* objcGen.genFuncM for one entry of g.funcs. *)
genFuncM_with(pkgName, obj, s) ==
    IF s.nil THEN [stubs |-> <<>>, errs |-> s.errs]
    ELSE LET e == emitStub(PkgDescriptor(pkgName), "_DESCRIPTOR_", "func", obj.name,
                           CallMacro(obj.name), s, FALSE, asFunc(pkgName, s),
                           asFuncErrs(s))
         IN  [stubs |-> <<e.stub>>, errs |-> e.errs]

genFuncM(pkgName, obj) == genFuncM_with(pkgName, obj, funcSummary(pkgName, obj))

(***************************************************************************)
(* objcGen.genM: one whole run.  Structs are generated in g.names order    *)
(* and a panic in one ends the run there; the free functions follow.       *)
(***************************************************************************)
RunResult(g, err, kind, defines, stubs, decls, panic) ==
    [g |-> [g EXCEPT !.err = err],
     out |-> [kind |-> kind, defines |-> defines, stubs |-> stubs, decls |-> decls],
     ret |-> IF panic THEN "panic" ELSE IF Len(err) > 0 THEN "error" ELSE "nil"]

genStructsM_step(h, names, i) ==
    [defines |-> h.acc.defines \o h.cur.defines,
     stubs |-> h.acc.stubs \o h.cur.stubs,
     errs |-> h.acc.errs \o h.cur.errs,
     panic |-> h.cur.panic]

RECURSIVE genStructsM(_, _, _, _)
genStructsM(pkgName, names, i, acc) ==
    IF i > Len(names) \/ acc.panic THEN acc
    ELSE genStructsM(pkgName, names, i + 1,
                     genStructsM_step([acc |-> acc, cur |-> genStructM(pkgName, names[i])],
                                      names, i))

genM_funcs(g) ==
    [defines |-> [i \in 1..Len(g.funcs) |->
                    Define(CallMacro(g.funcs[i].name), PkgDescriptor(g.pkgName),
                           "func", g.funcs[i].name, CallCode(i - 1))],
     fs |-> [i \in 1..Len(g.funcs) |-> genFuncM(g.pkgName, g.funcs[i])]]

genM_emit(g, fn, st) ==
    RunResult(g,
              IF st.panic THEN g.err \o st.errs
              ELSE g.err \o st.errs \o Flatten([i \in 1..Len(fn.fs) |-> fn.fs[i].errs]),
              "M",
              fn.defines \o st.defines,
              IF st.panic THEN st.stubs
              ELSE st.stubs \o Flatten([i \in 1..Len(fn.fs) |-> fn.fs[i].stubs]),
              <<>>, st.panic)

genM_init(g) ==
    genM_emit(g, genM_funcs(g),
              genStructsM(g.pkgName, g.names, 1,
                          [defines |-> <<>>, stubs |-> <<>>, errs |-> <<>>,
                           panic |-> FALSE]))

genM(g0, pkg) == genM_init(init(g0, pkg))

(***************************************************************************)
(* objcGen.genH: one whole run.  genStructH calls s.asMethod(g) on every   *)
(* method summary, nil or not; genFuncH skips a nil summary.               *)
(***************************************************************************)
Decl(kind, owner, name) == [kind |-> kind, owner |-> owner, name |-> name]

genStructH_emit(t, fields, methods, sums, bad, last) ==
    [decls |-> Flatten([i \in 1..Len(fields) |->
                  <<Decl("get", t.name, fields[i].name),
                    Decl("set", t.name, fields[i].name)>>])
               \o [i \in 1..last |-> Decl("method", t.name, methods[i].name)],
     errs |-> Flatten([i \in 1..Len(fields) |-> objcTypeErr(fields[i].typ)])
              \o Flatten([i \in 1..last |-> sums[i].errs \o asMethodErrs(sums[i])])
              \o (IF bad = 0 THEN <<>> ELSE sums[bad].errs),
     panic |-> bad # 0]

genStructH_sums(t, methods, sums, bad) ==
    genStructH_emit(t, exportedFields(t), methods, sums, bad,
                    IF bad = 0 THEN Len(methods) ELSE bad - 1)

genStructH_with(t, methods, sums) ==
    genStructH_sums(t, methods, sums, FirstNil(sums))

genStructH(pkgName, t) ==
    genStructH_with(t, exportedMethodSet(t),
                    [i \in 1..Len(exportedMethodSet(t)) |->
                       funcSummary(pkgName, exportedMethodSet(t)[i])])

genStructsH_step(h) ==
    [decls |-> h.acc.decls \o h.cur.decls, errs |-> h.acc.errs \o h.cur.errs,
     panic |-> h.cur.panic]

RECURSIVE genStructsH(_, _, _, _)
genStructsH(pkgName, names, i, acc) ==
    IF i > Len(names) \/ acc.panic THEN acc
    ELSE genStructsH(pkgName, names, i + 1,
                     genStructsH_step([acc |-> acc, cur |-> genStructH(pkgName, names[i])]))

genFuncH_with(obj, s) ==
    IF s.nil THEN [decls |-> <<>>, errs |-> s.errs]
    ELSE [decls |-> <<Decl("func", "", obj.name)>>, errs |-> s.errs \o asFuncErrs(s)]

genFuncH(pkgName, obj) == genFuncH_with(obj, funcSummary(pkgName, obj))

genH_emit(g, fs, st) ==
    RunResult(g,
              IF st.panic THEN g.err \o st.errs
              ELSE g.err \o st.errs \o Flatten([i \in 1..Len(fs) |-> fs[i].errs]),
              "H", <<>>, <<>>,
              IF st.panic THEN st.decls
              ELSE st.decls \o Flatten([i \in 1..Len(fs) |-> fs[i].decls]),
              st.panic)

genH_init(g) ==
    genH_emit(g, [i \in 1..Len(g.funcs) |-> genFuncH(g.pkgName, g.funcs[i])],
              genStructsH(g.pkgName, g.names, 1,
                          [decls |-> <<>>, errs |-> <<>>, panic |-> FALSE]))

genH(g0, pkg) == genH_init(init(g0, pkg))

(***************************************************************************)
(* Package testpkg as the generated dispatcher calls it, in scope (name)   *)
(* order, and the dispatch table the dispatcher's init functions fill.     *)
(***************************************************************************)
TestPkg ==
    [name |-> "testpkg",
     scope |-> <<
       FuncObj("BytesAppend", TRUE, <<Var("a", "[]byte"), Var("b", "[]byte")>>,
               <<Var("", "[]byte")>>),
       FuncObj("CallSSum", TRUE, <<Var("s", "*S")>>, <<Var("", "float64")>>),
       FuncObj("CollectS", TRUE, <<Var("want", "int"), Var("timeoutSec", "int")>>,
               <<Var("", "int")>>),
       FuncObj("Hello", TRUE, <<Var("s", "string")>>, <<Var("", "string")>>),
       FuncObj("Hi", TRUE, <<>>, <<>>),
       FuncObj("Int", TRUE, <<Var("x", "int32")>>, <<>>),
       FuncObj("NewS", TRUE, <<Var("x", "float64"), Var("y", "float64")>>,
               <<Var("", "*S")>>),
       FuncObj("ReturnsError", TRUE, <<Var("b", "bool")>>,
               <<Var("", "string"), Var("", "error")>>),
       StructObj("S",
                 <<Field("X", TRUE, "float64"), Field("Y", TRUE, "float64")>>,
                 <<FuncObj("Sum", TRUE, <<>>, <<Var("", "float64")>>),
                   FuncObj("TryTwoStrings", TRUE,
                           <<Var("first", "string"), Var("second", "string")>>,
                           <<Var("", "string")>>)>>),
       FuncObj("Sum", TRUE, <<Var("x", "int64"), Var("y", "int64")>>,
               <<Var("", "int64")>>) >>]

proxyS_Descriptor == "go.testpkg.S"
\* 0x00f, 0x01f, 0x10f, 0x11f, 0x00c, 0x10c
proxyS_X_Get_Code == 15
proxyS_X_Set_Code == 31
proxyS_Y_Get_Code == 271
proxyS_Y_Set_Code == 287
proxyS_Sum_Code == 12
proxyS_TryTwoStrings_Code == 268

Reg(desc, code, kind, name) == [desc |-> desc, code |-> code, kind |-> kind, name |-> name]

(* seq.Register calls: (descriptor, code) and the declaration the handler serves. *)
Registered ==
    { Reg(proxyS_Descriptor, proxyS_X_Set_Code, "set", "X"),
      Reg(proxyS_Descriptor, proxyS_X_Get_Code, "get", "X"),
      Reg(proxyS_Descriptor, proxyS_Y_Set_Code, "set", "Y"),
      Reg(proxyS_Descriptor, proxyS_Y_Get_Code, "get", "Y"),
      Reg(proxyS_Descriptor, proxyS_Sum_Code, "method", "Sum"),
      Reg(proxyS_Descriptor, proxyS_TryTwoStrings_Code, "method", "TryTwoStrings"),
      Reg("testpkg", 1, "func", "BytesAppend"),
      Reg("testpkg", 2, "func", "CallSSum"),
      Reg("testpkg", 3, "func", "CollectS"),
      Reg("testpkg", 4, "func", "Hello"),
      Reg("testpkg", 5, "func", "Hi"),
      Reg("testpkg", 6, "func", "Int"),
      Reg("testpkg", 7, "func", "NewS"),
      Reg("testpkg", 8, "func", "ReturnsError"),
      Reg("testpkg", 9, "func", "Sum") }

(***************************************************************************)
(* Bounded declaration models the generator is run on.                     *)
(***************************************************************************)
SigAccepted == [params |-> <<Var("b", "bool")>>,
                results |-> <<Var("", "string"), Var("", "error")>>]

SigRejected == [params |-> <<>>, results |-> <<Var("", "int"), Var("", "int")>>]

SigUnsupported == [params |-> <<Var("c", "chan int")>>, results |-> <<>>]

GenSigs == {SigAccepted, SigRejected}

ScopeObjs(name) ==
    {FuncObj(name, TRUE, sg.params, sg.results) : sg \in GenSigs}
    \cup {FuncObj(name, FALSE, SigAccepted.params, SigAccepted.results)}

FuncScopes ==
    UNION {{sc \in [1..n -> UNION {ScopeObjs("F" \o ToString(k)) : k \in 1..n}] :
              \A k \in 1..n : sc[k].name = "F" \o ToString(k)} : n \in 0..MaxFuncs}

FieldSeqs ==
    UNION {{fs \in [1..n -> {Field("X" \o ToString(k), e, "float64") :
                               k \in 1..n, e \in BOOLEAN}] :
              \A k \in 1..n : fs[k].name = "X" \o ToString(k)} : n \in 0..MaxFields}

MethodSeqs ==
    UNION {{ms \in [1..n -> {FuncObj("M" \o ToString(k), TRUE, sg.params, sg.results) :
                               k \in 1..n, sg \in GenSigs}] :
              \A k \in 1..n : ms[k].name = "M" \o ToString(k)} : n \in 0..MaxMethods}

GenericPkgs ==
    {[name |-> "go", scope |-> fs \o <<StructObj("S", fl, ms)>>] :
        fs \in FuncScopes, fl \in FieldSeqs, ms \in MethodSeqs}

(* Packages with an object that is neither a function nor a type, and with *)
(* functions and methods whose parameter type the type mapper rejects.     *)
OddScopes ==
    {<<ConstObj("F1"), FuncObj("F2", TRUE, SigAccepted.params, SigAccepted.results)>>,
     <<ConstObj("F1"),
       FuncObj("F2", TRUE, SigUnsupported.params, SigUnsupported.results)>>,
     <<FuncObj("F1", TRUE, SigUnsupported.params, SigUnsupported.results),
       FuncObj("F2", TRUE, SigAccepted.params, SigAccepted.results)>>}

OddMethods ==
    {<<>>,
     <<FuncObj("M1", TRUE, SigUnsupported.params, SigUnsupported.results)>>,
     <<FuncObj("M1", TRUE, SigUnsupported.params, SigUnsupported.results),
       FuncObj("M2", TRUE, SigAccepted.params, SigAccepted.results)>>}

OddPkgs ==
    {[name |-> "go",
      scope |-> fs \o <<StructObj("S", <<Field("X1", TRUE, "float64")>>, ms)>>] :
        fs \in OddScopes, ms \in OddMethods}

(* One struct with many members: the hexadecimal index takes a second digit. *)
WidePkg ==
    [name |-> "go",
     scope |-> <<StructObj("S",
                   [k \in 1..WideCount |-> Field("X" \o ToString(k), TRUE, "float64")],
                   [k \in 1..WideCount |->
                      FuncObj("M" \o ToString(k), TRUE, <<>>, <<>>)])>>]

(* One exported function of every result shape over ResultTypes. *)
ResultTypes == {"int", "error", "*S", "chan int"}

SigPkgs ==
    {[name |-> "go",
      scope |-> <<FuncObj("F1", TRUE, ps, [i \in 1..Len(rs) |-> Var("", rs[i])])>>] :
        ps \in {<<>>, <<Var("x", "int32"), Var("s", "*S")>>},
        rs \in SeqsUpTo(ResultTypes, MaxResults)}

Packages == GenericPkgs \cup OddPkgs \cup SigPkgs \cup {TestPkg, WidePkg}

(***************************************************************************)
(* The generated Go dispatcher (go_testpkg.go).  A handler is given the    *)
(* registry's objects hp, the request items in and, where it calls a       *)
(* testpkg function, the values body that function returns; it yields the  *)
(* objects afterwards and the response items it wrote.                     *)
(***************************************************************************)
W(t, v) == [t |-> t, v |-> v]

(* The wire encoding a reader or writer of either side moves. *)
Wire(t) == CASE t = "UTF8" -> "String" [] t = "GoRef" -> "Ref" [] OTHER -> t

NoError == [nil |-> TRUE, msg |-> ""]

Failure(m) == [nil |-> FALSE, msg |-> m]

(* The Read calls of each handler, in order. *)
ProxyReads(kind, name) ==
    CASE kind = "func" /\ name = "BytesAppend" -> <<"ByteArray", "ByteArray">>
      [] kind = "func" /\ name = "CallSSum" -> <<"Ref">>
      [] kind = "func" /\ name = "CollectS" -> <<"Int", "Int">>
      [] kind = "func" /\ name = "Hello" -> <<"String">>
      [] kind = "func" /\ name = "Hi" -> <<>>
      [] kind = "func" /\ name = "Int" -> <<"Int32">>
      [] kind = "func" /\ name = "NewS" -> <<"Float64", "Float64">>
      [] kind = "func" /\ name = "ReturnsError" -> <<"Bool">>
      [] kind = "func" /\ name = "Sum" -> <<"Int64", "Int64">>
      [] kind = "set" -> <<"Ref", "Float64">>
      [] kind = "get" -> <<"Ref">>
      [] kind = "method" /\ name = "Sum" -> <<"Ref">>
      [] kind = "method" /\ name = "TryTwoStrings" -> <<"Ref", "String", "String">>

Done(hp, outItems) == [heap |-> hp, out |-> outItems]

proxy_BytesAppend(hp, in, body) == Done(hp, <<W("ByteArray", body[1])>>)

proxy_CallSSum(hp, in, body) == Done(hp, <<W("Float64", body[1])>>)

proxy_CollectS(hp, in, body) == Done(hp, <<W("Int", body[1])>>)

proxy_Hello(hp, in, body) == Done(hp, <<W("String", body[1])>>)

proxy_Hi(hp, in, body) == Done(hp, <<>>)

proxy_Int(hp, in, body) == Done(hp, <<>>)

(* testpkg.NewS: a new S with the fields given. *)
testpkg_NewS(x, y) == [X |-> x, Y |-> y]

(* Buffer.WriteGoRef: the object enters the reference registry under a new  *)
(* handle, which is written.                                                 *)
WriteGoRef(hp, obj) == Done(Append(hp, obj), <<W("GoRef", Len(hp) + 1)>>)

(* Ref.Get: the object the registry holds for the handle read. *)
Ref_Get(hp, ref) == hp[ref.v]

proxy_NewS(hp, in, body) == WriteGoRef(hp, testpkg_NewS(in[1].v, in[2].v))

proxy_ReturnsError(hp, in, body) ==
    Done(hp, <<W("String", body[1]),
               W("String", IF body[2].nil THEN "" ELSE body[2].msg)>>)

proxy_Sum(hp, in, body) == Done(hp, <<W("Int64", body[1])>>)

proxyS_X_Set(hp, in, body) ==
    Done([hp EXCEPT ![in[1].v] = [Ref_Get(hp, in[1]) EXCEPT !.X = in[2].v]], <<>>)

proxyS_X_Get(hp, in, body) == Done(hp, <<W("Float64", Ref_Get(hp, in[1]).X)>>)

proxyS_Y_Set_WritesX(hp, in, body) ==
    Done([hp EXCEPT ![in[1].v] = [Ref_Get(hp, in[1]) EXCEPT !.X = in[2].v]], <<>>)

proxyS_Y_Set(hp, in, body) ==
    Done([hp EXCEPT ![in[1].v] = [Ref_Get(hp, in[1]) EXCEPT !.Y = in[2].v]], <<>>)

proxyS_Y_Get(hp, in, body) == Done(hp, <<W("Float64", Ref_Get(hp, in[1]).Y)>>)

proxyS_Sum(hp, in, body) == Done(hp, <<W("Float64", body[1])>>)

proxyS_TryTwoStrings(hp, in, body) == Done(hp, <<W("String", body[1])>>)

(* seq.Register: the handler registered for a declaration. *)
Handle(kind, name, hp, in, body) ==
    CASE kind = "func" /\ name = "BytesAppend" -> proxy_BytesAppend(hp, in, body)
      [] kind = "func" /\ name = "CallSSum" -> proxy_CallSSum(hp, in, body)
      [] kind = "func" /\ name = "CollectS" -> proxy_CollectS(hp, in, body)
      [] kind = "func" /\ name = "Hello" -> proxy_Hello(hp, in, body)
      [] kind = "func" /\ name = "Hi" -> proxy_Hi(hp, in, body)
      [] kind = "func" /\ name = "Int" -> proxy_Int(hp, in, body)
      [] kind = "func" /\ name = "NewS" -> proxy_NewS(hp, in, body)
      [] kind = "func" /\ name = "ReturnsError" -> proxy_ReturnsError(hp, in, body)
      [] kind = "func" /\ name = "Sum" -> proxy_Sum(hp, in, body)
      [] kind = "set" /\ name = "X" -> proxyS_X_Set(hp, in, body)
      [] kind = "get" /\ name = "X" -> proxyS_X_Get(hp, in, body)
      [] kind = "set" /\ name = "Y" -> proxyS_Y_Set(hp, in, body)
      [] kind = "get" /\ name = "Y" -> proxyS_Y_Get(hp, in, body)
      [] kind = "method" /\ name = "Sum" -> proxyS_Sum(hp, in, body)
      [] kind = "method" /\ name = "TryTwoStrings" ->
           proxyS_TryTwoStrings(hp, in, body)

(***************************************************************************)
(* Running a generated caller stub: the statements genFunc emitted, in     *)
(* order, against the dispatch table.                                      *)
(***************************************************************************)
OpsOf(stub, op) == SelectSeq(stub.ops, LAMBDA o : o.op = op)

StubHas(stub, op) == \E i \in 1..Len(stub.ops) : stub.ops[i].op = op

(* The value a write statement sends: the receiver's ref or an argument. *)
ArgIndex(stub, arg) ==
    CHOOSE i \in 1..Len(stub.proto.params) :
        stub.proto.params[i][2] = arg \/ stub.proto.params[i][2] \o ".ref" = arg

WrittenItems(stub, self, args) ==
    [i \in 1..Len(OpsOf(stub, "write")) |->
       W(OpsOf(stub, "write")[i].st,
         IF OpsOf(stub, "write")[i].arg = "self.ref" THEN self
         ELSE args[ArgIndex(stub, OpsOf(stub, "write")[i].arg)])]

(* The #define a macro name refers to. *)
Resolve(defines, macro) ==
    (CHOOSE i \in 1..Len(defines) : defines[i].macro = macro)

(* go_seq_send: the handler registered under the pair the macros denote. *)
Dispatch(defines, stub) ==
    LET regs == {r \in Registered :
                   /\ r.desc = stub.desc
                   /\ r.code = defines[Resolve(defines, stub.macro)].code}
    IN  IF regs = {} THEN <<"none", "">>
        ELSE LET r == CHOOSE r \in regs : TRUE IN <<r.kind, r.name>>

TypesMatch(types, items) ==
    /\ Len(types) = Len(items)
    /\ \A i \in 1..Len(types) : Wire(types[i]) = Wire(items[i].t)

ReadTypes(stub) == [i \in 1..Len(OpsOf(stub, "read")) |-> OpsOf(stub, "read")[i].st]

(* The statements of the stub as events, the handler's reads and writes   *)
(* placed at the send.                                                     *)
Trace(stub, hreads, hwrites) ==
    Flatten([i \in 1..Len(stub.ops) |->
       IF stub.ops[i].op = "send"
       THEN << <<"stub", "send", "", "">> >>
            \o [k \in 1..Len(hreads) |-> <<"handler", "read", Wire(hreads[k]), "">>]
            \o [k \in 1..Len(hwrites) |->
                  <<"handler", "write", Wire(hwrites[k].t), "">>]
       ELSE IF stub.ops[i].op \in {"read", "write"}
       THEN << <<"stub", stub.ops[i].op, Wire(stub.ops[i].st), stub.ops[i].arg>> >>
       ELSE << <<"stub", stub.ops[i].op, "", stub.ops[i].arg>> >>])

CallRec(stub, h, self, trace, retv, msg, failed, errorSet, fault) ==
    [site |-> <<stub.kind, stub.name>>, handler |-> h, self |-> self,
     trace |-> trace, ret |-> retv, msg |-> msg, failed |-> failed,
     errorSet |-> errorSet, fault |-> fault]

(* go_seq_readRef: the GoSeqRef of a handle, with the obj recorded for it. *)
go_seq_readRef(ro, h) == [refnum |-> h, obj |-> ro[h]]

(* Lines 307-320 and 339-352: the wrapper for a ref that was read.  The   *)
(* ref's obj is used when set; otherwise a wrapper is allocated with       *)
(* initWithRef, which stores the ref in the wrapper and nothing else.      *)
WrapRef(h, wr, ro) ==
    IF go_seq_readRef(ro, h).obj # 0
    THEN [wrappers |-> wr, id |-> go_seq_readRef(ro, h).obj]
    ELSE [wrappers |-> Append(wr, h), id |-> Len(wr) + 1]

(* The statements after the send, on the response items. *)
Decode(stub, h, self, ptrs, failed, hp, wr, ro, hreads, items) ==
    IF ~TypesMatch(ReadTypes(stub), items)
    THEN [heap |-> hp, wrappers |-> wr,
          call |-> CallRec(stub, h, self, Trace(stub, hreads, items), "void", "-",
                           failed, FALSE, TRUE)]
    ELSE IF StubHas(stub, "wrap")
    THEN [heap |-> hp, wrappers |-> WrapRef(items[1].v, wr, ro).wrappers,
          call |-> CallRec(stub, h, self, Trace(stub, hreads, items),
                           WrapRef(items[1].v, wr, ro).id, "-", failed, FALSE, FALSE)]
    ELSE IF StubHas(stub, "returnIsEmpty")
    THEN [heap |-> hp,
          wrappers |-> IF StubHas(stub, "storeOutWrap") /\ ptrs.value
                       THEN WrapRef(items[1].v, wr, ro).wrappers ELSE wr,
          call |-> CallRec(stub, h, self, Trace(stub, hreads, items),
                           items[Len(items)].v = "", items[Len(items)].v, failed,
                           items[Len(items)].v # "" /\ ptrs.error, FALSE)]
    ELSE IF StubHas(stub, "return")
    THEN [heap |-> hp, wrappers |-> wr,
          call |-> CallRec(stub, h, self, Trace(stub, hreads, items), items[1].v,
                           "-", failed, FALSE, FALSE)]
    ELSE [heap |-> hp, wrappers |-> wr,
          call |-> CallRec(stub, h, self, Trace(stub, hreads, items), "void", "-",
                           failed, FALSE, FALSE)]

Served(stub, h, self, ptrs, body, failed, hp, wr, ro, in) ==
    IF h[1] = "none" \/ ~TypesMatch(ProxyReads(h[1], h[2]), in)
    THEN [heap |-> hp, wrappers |-> wr,
          call |-> CallRec(stub, h, self,
                           Trace(stub, IF h[1] = "none" THEN <<>>
                                       ELSE ProxyReads(h[1], h[2]), <<>>),
                           "void", "-", failed, FALSE, TRUE)]
    ELSE Decode(stub, h, self, ptrs, failed, Handle(h[1], h[2], hp, in, body).heap,
                wr, ro, ProxyReads(h[1], h[2]), Handle(h[1], h[2], hp, in, body).out)

Exec(stub, defines, self, args, ptrs, body, failed, hp, wr, ro) ==
    Served(stub, Dispatch(defines, stub), self, ptrs, body, failed, hp, wr, ro,
           WrittenItems(stub, self, args))

(***************************************************************************)
(* State.                                                                  *)
(***************************************************************************)
VARIABLES
    pkg,      \* the declaration model the generator is bound to (g.pkg)
    g,        \* the objcGen value: pkgName, namePrefix, funcs, names, err
    out,      \* what the latest run emitted: #defines, stubs, header declarations
    ret,      \* the latest run's result: "none", "nil", "error", "panic"
    runs,     \* number of genH/genM runs made
    tables,   \* the #define table of every genM run so far
    heap,     \* Go side: the S objects the reference registry holds, by handle
    wrappers, \* Objective-C side: the wrapper objects allocated, each with its ref
    refObj,   \* Objective-C side: the obj a GoSeqRef read for a handle carries
    written,  \* per handle, the field values constructed or last set by the caller
    lastSet,  \* the handle and field of the setter call that the calls since
              \* (getters of that field on that handle only) read back
    call      \* the latest call made through a generated stub

genVars == <<pkg, g, out, ret, runs, tables>>

runVars == <<heap, wrappers, refObj, written, lastSet, call>>

vars == <<pkg, g, out, ret, runs, tables, heap, wrappers, refObj, written, lastSet,
          call>>

NoOut == [kind |-> "none", defines |-> <<>>, stubs |-> <<>>, decls |-> <<>>]

NoCall ==
    [site |-> <<"none", "">>, handler |-> <<"none", "">>, self |-> 0, trace |-> <<>>,
     ret |-> "void", msg |-> "-", failed |-> FALSE, errorSet |-> FALSE,
     fault |-> FALSE]

NoRuntime ==
    /\ heap = <<>>
    /\ wrappers = <<>>
    /\ refObj = [h \in 1..MaxObjs |-> 0]
    /\ written = <<>>
    /\ lastSet = <<0, "">>
    /\ call = NoCall

Init ==
    /\ pkg \in Packages
    /\ g = NewGen
    /\ out = NoOut
    /\ ret = "none"
    /\ runs = 0
    /\ tables = <<>>
    /\ NoRuntime

Ran(r) ==
    /\ g' = r.g
    /\ out' = r.out
    /\ ret' = r.ret
    /\ runs' = runs + 1
    /\ tables' = IF r.out.kind = "M" THEN Append(tables, r.out.defines) ELSE tables
    /\ UNCHANGED pkg
    /\ UNCHANGED runVars

GenH ==
    /\ ret # "panic"
    /\ runs < MaxRuns
    /\ Ran(genH(g, pkg))

GenM ==
    /\ ret # "panic"
    /\ runs < MaxRuns
    /\ Ran(genM(g, pkg))

(* A separate generator (a later invocation of the tool) over the same model. *)
NewGenerator ==
    /\ ret # "none"
    /\ g' = NewGen
    /\ out' = NoOut
    /\ ret' = "none"
    /\ UNCHANGED <<pkg, runs, tables>>
    /\ UNCHANGED runVars

Next == GenH \/ GenM \/ NewGenerator

Spec == Init /\ [][Next]_vars

(***************************************************************************)
(* Calls through the binding genM generated for testpkg: the caller stubs  *)
(* of out, dispatched to the handlers of go_testpkg.go.                    *)
(***************************************************************************)
(* Values the model inspects: results, field values, messages. *)
IntVals == {0, 1}

FloatVals == {0, 1}

StrVals == {"", "a"}

ByteVals == {<<>>, <<1>>}

(* Arguments the stubs and handlers carry to testpkg without inspecting them. *)
IntArgs == {1}

StrArgs == {"a"}

ByteArgs == {<<1>>}

BoolArgs == {TRUE}

(* What a declaration with a failure result can return as the failure. *)
ErrorVals == {NoError, Failure(""), Failure("Error")}

NoPtrs == [value |-> FALSE, error |-> FALSE]

(* The binding genM emitted for testpkg is installed; the generator is idle. *)
InitRun ==
    /\ pkg = TestPkg
    /\ g = NewGen
    /\ out = genM(NewGen, TestPkg).out
    /\ ret = "none"
    /\ runs = 0
    /\ tables = <<>>
    /\ NoRuntime

StubFor(kind, name) ==
    out.stubs[CHOOSE i \in 1..Len(out.stubs) :
                 out.stubs[i].kind = kind /\ out.stubs[i].name = name]

CalledSet(r, w, ls) ==
    /\ heap' = r.heap
    /\ wrappers' = r.wrappers
    /\ call' = r.call
    /\ written' = w
    /\ lastSet' = ls
    /\ UNCHANGED refObj
    /\ UNCHANGED genVars

Called(r, w) == CalledSet(r, w, <<0, "">>)

Run(kind, name, self, args, ptrs, body, failed) ==
    Exec(StubFor(kind, name), out.defines, self, args, ptrs, body, failed,
         heap, wrappers, refObj)

(* Calls are made through the implementation file genM generated. *)
Installed == out.kind = "M"

CallBytesAppend ==
    /\ Installed
    /\ \E a, b \in ByteArgs : \E res \in ByteVals :
           Called(Run("func", "BytesAppend", 0, <<a, b>>, NoPtrs, <<res>>, FALSE), written)

CallCallSSum ==
    /\ Installed
    /\ \E w \in 1..Len(wrappers) : \E res \in FloatVals :
           Called(Run("func", "CallSSum", 0, <<wrappers[w]>>, NoPtrs, <<res>>, FALSE),
                  written)

CallCollectS ==
    /\ Installed
    /\ \E want, timeoutSec \in IntArgs : \E res \in IntVals :
           Called(Run("func", "CollectS", 0, <<want, timeoutSec>>, NoPtrs, <<res>>, FALSE),
                  written)

CallHello ==
    /\ Installed
    /\ \E s \in StrArgs : \E res \in StrVals :
           Called(Run("func", "Hello", 0, <<s>>, NoPtrs, <<res>>, FALSE), written)

CallHi ==
    /\ Installed
    /\ Called(Run("func", "Hi", 0, <<>>, NoPtrs, <<>>, FALSE), written)

CallInt ==
    /\ Installed
    /\ \E x \in IntArgs : Called(Run("func", "Int", 0, <<x>>, NoPtrs, <<>>, FALSE), written)

(* The object behind the wrapper NewS returned was constructed with x, y. *)
Constructed(r, x, y) ==
    Called(r, IF r.call.fault THEN written
              ELSE [h \in 1..Len(r.heap) |->
                      IF h = r.wrappers[r.call.ret]
                      THEN [X |-> x, Y |-> y]
                      ELSE written[h]])

CallNewS ==
    /\ Installed
    /\ Len(heap) < MaxObjs
    /\ Len(wrappers) < MaxWrappers
    /\ \E x, y \in FloatVals :
          Constructed(Run("func", "NewS", 0, <<x, y>>, NoPtrs, <<>>, FALSE), x, y)

CallReturnsError ==
    /\ Installed
    /\ \E b \in BoolArgs : \E pv, pe \in BOOLEAN : \E res \in StrVals :
         \E err \in ErrorVals :
           Called(Run("func", "ReturnsError", 0, <<b>>, [value |-> pv, error |-> pe],
                      <<res, err>>, ~err.nil), written)

CallSum ==
    /\ Installed
    /\ \E x, y \in IntArgs : \E res \in IntVals :
           Called(Run("func", "Sum", 0, <<x, y>>, NoPtrs, <<res>>, FALSE), written)

S_X ==
    /\ Installed
    /\ \E w \in 1..Len(wrappers) :
           CalledSet(Run("get", "X", wrappers[w], <<>>, NoPtrs, <<>>, FALSE), written,
                     IF lastSet = <<wrappers[w], "X">> THEN lastSet ELSE <<0, "">>)

S_setX ==
    /\ Installed
    /\ \E w \in 1..Len(wrappers) : \E v \in FloatVals :
           CalledSet(Run("set", "X", wrappers[w], <<v>>, NoPtrs, <<>>, FALSE),
                     [written EXCEPT ![wrappers[w]].X = v], <<wrappers[w], "X">>)

S_Y ==
    /\ Installed
    /\ \E w \in 1..Len(wrappers) :
           CalledSet(Run("get", "Y", wrappers[w], <<>>, NoPtrs, <<>>, FALSE), written,
                     IF lastSet = <<wrappers[w], "Y">> THEN lastSet ELSE <<0, "">>)

S_setY ==
    /\ Installed
    /\ \E w \in 1..Len(wrappers) : \E v \in FloatVals :
           CalledSet(Run("set", "Y", wrappers[w], <<v>>, NoPtrs, <<>>, FALSE),
                     [written EXCEPT ![wrappers[w]].Y = v], <<wrappers[w], "Y">>)

S_Sum ==
    /\ Installed
    /\ \E w \in 1..Len(wrappers) : \E res \in FloatVals :
           Called(Run("method", "Sum", wrappers[w], <<>>, NoPtrs, <<res>>, FALSE), written)

S_TryTwoStrings ==
    /\ Installed
    /\ \E w \in 1..Len(wrappers) : \E first, second \in StrArgs : \E res \in StrVals :
           Called(Run("method", "TryTwoStrings", wrappers[w], <<first, second>>, NoPtrs,
                      <<res>>, FALSE), written)

(* The stub genFuncM emits for a bound function whose one result is a *S, *)
(* run on the response of a handler that returned the live object h.       *)
RefResultStub ==
    genFuncM(TestPkg.name, FuncObj("GetS", TRUE, <<>>, <<Var("", "*S")>>)).stubs[1]

CallRefResult ==
    /\ Installed
    /\ Len(wrappers) < MaxWrappers
    /\ \E h \in 1..Len(heap) :
          Called(Decode(RefResultStub, <<"func", "GetS">>, 0, NoPtrs, FALSE, heap,
                        wrappers, refObj, <<>>, <<W("GoRef", h)>>), written)

NextRun ==
    \/ CallBytesAppend \/ CallCallSSum \/ CallCollectS \/ CallHello \/ CallHi
    \/ CallInt \/ CallNewS \/ CallReturnsError \/ CallSum
    \/ S_X \/ S_setX \/ S_Y \/ S_setY \/ S_Sum \/ S_TryTwoStrings
    \/ CallRefResult

SpecRun == InitRun /\ [][NextRun]_vars

(***************************************************************************)
(* Properties of the generator.                                            *)
(***************************************************************************)
(* The call address a stub sends to: its macros resolved by the run's #defines. *)
CallSite(defines, stub) ==
    Reg(stub.desc, defines[Resolve(defines, stub.macro)].code, stub.kind, stub.name)

DefinedSites(defines) ==
    {Reg(defines[i].desc, defines[i].code, defines[i].kind, defines[i].name) :
        i \in 1..Len(defines)}

(* The exported declarations of the package, by kind, in declared order. *)
DeclaredFuncs == SelectSeq(pkg.scope, LAMBDA o : o.exported /\ o.kind = "func")

DeclaredStructs == SelectSeq(pkg.scope, LAMBDA o : o.exported /\ o.kind = "struct")

(* The code the scheme gives the member of a kind at 0-based position i. *)
PositionCode(kind, i) ==
    CASE kind = "func" -> i + 1
      [] kind = "get" -> 256 * i + 15
      [] kind = "set" -> 256 * i + 31
      [] kind = "method" -> 256 * i + 12

\* C1: for package testpkg every stub genM emits sends to the (descriptor, code)
\* under which go_testpkg registers the handler of the same declaration, the
\* #defines are exactly the registered pairs, and nothing else is registered.
C1_CallerCalleeAgree ==
    (pkg = TestPkg /\ out.kind = "M") =>
        /\ {CallSite(out.defines, out.stubs[i]) : i \in 1..Len(out.stubs)} = Registered
        /\ DefinedSites(out.defines) = Registered
        /\ \A r1, r2 \in Registered :
              (r1.desc = r2.desc /\ r1.code = r2.code) => r1 = r2

C1_Witness ==
    /\ pkg = TestPkg
    /\ out.kind = "M"
    /\ Len(out.stubs) = Cardinality(Registered)
    /\ ret = "nil"

OwnerStruct(d) ==
    CHOOSE t \in Range(DeclaredStructs) : StructDescriptor(pkg.name, t.name) = d.desc

MemberNames(d) ==
    CASE d.kind = "func" -> [k \in 1..Len(DeclaredFuncs) |-> DeclaredFuncs[k].name]
      [] d.kind \in {"get", "set"} ->
           [k \in 1..Len(exportedFields(OwnerStruct(d))) |->
              exportedFields(OwnerStruct(d))[k].name]
      [] d.kind = "method" ->
           [k \in 1..Len(OwnerStruct(d).methods) |-> OwnerStruct(d).methods[k].name]

PosOf(names, n) == CHOOSE k \in 1..Len(names) : names[k] = n

\* C2: every genM run over the same declaration model emits the same #define
\* table, whether it is the first run of a generator, a run after genH, a second
\* genM of the same generator or the run of a separate generator, and every
\* code in it is the one its declaration's kind and declared position give.
C2_Deterministic ==
    /\ \A i, j \in 1..Len(tables) : tables[i] = tables[j]
    /\ \A i \in 1..Len(tables) : \A k \in 1..Len(tables[i]) :
          /\ tables[i][k].name \in Range(MemberNames(tables[i][k]))
          /\ tables[i][k].code =
               PositionCode(tables[i][k].kind,
                            PosOf(MemberNames(tables[i][k]), tables[i][k].name) - 1)

C2_Witness ==
    /\ Len(tables) = 2
    /\ runs = 2
    /\ out.kind = "M"
    /\ Len(tables[2]) > 3
    /\ Len(g.funcs) > 1

\* C3: in the #defines of one genM run, two different entries under the same
\* descriptor never carry the same code (getter, setter and method codes of a
\* struct are pairwise distinct), and the package descriptor of the free
\* functions is the descriptor of no struct.
C3_CodesDistinct ==
    out.kind = "M" =>
        /\ \A i, j \in 1..Len(out.defines) :
              (i # j /\ out.defines[i].desc = out.defines[j].desc)
                  => out.defines[i].code # out.defines[j].code
        /\ \A i, j \in 1..Len(out.defines) :
              (out.defines[i].kind = "func" /\ out.defines[j].kind # "func")
                  => out.defines[i].desc # out.defines[j].desc
        /\ \A k \in 1..Len(DeclaredStructs) :
              StructDescriptor(g.pkgName, DeclaredStructs[k].name)
                  # PkgDescriptor(g.pkgName)

C3_Witness ==
    /\ out.kind = "M"
    /\ Cardinality({i \in 1..Len(out.defines) : out.defines[i].kind = "get"}) >= 2
    /\ Cardinality({i \in 1..Len(out.defines) : out.defines[i].kind = "set"}) >= 2
    /\ Cardinality({i \in 1..Len(out.defines) : out.defines[i].kind = "method"}) >= 2
    /\ Cardinality({i \in 1..Len(out.defines) : out.defines[i].kind = "func"}) >= 2

(* The stubs the latest run emitted for free function n. *)
StubsOf(n) == SelectSeq(out.stubs, LAMBDA st : st.kind = "func" /\ st.name = n)

HasOp(stub, op) == \E i \in 1..Len(stub.ops) : stub.ops[i].op = op

\* C4: after genM the free functions carry the codes 1..n in declared exported
\* order: the k-th exported function is defined with code k, whether or not
\* funcSummary accepts it or the functions before it.
C4_FuncCodesSequential ==
    out.kind = "M" =>
        LET fd == SelectSeq(out.defines, LAMBDA d : d.kind = "func")
        IN  /\ Len(fd) = Len(DeclaredFuncs)
            /\ \A k \in 1..Len(fd) :
                  /\ fd[k].name = DeclaredFuncs[k].name
                  /\ fd[k].macro = CallMacro(DeclaredFuncs[k].name)
                  /\ fd[k].code = k
            /\ {fd[k].code : k \in 1..Len(fd)} = 1..Len(DeclaredFuncs)

C4_Witness ==
    /\ out.kind = "M"
    /\ Len(DeclaredFuncs) >= 2
    /\ funcSummary(pkg.name, DeclaredFuncs[1]).nil
    /\ ~funcSummary(pkg.name, DeclaredFuncs[2]).nil
    /\ \E i \in 1..Len(out.defines) :
          out.defines[i].name = DeclaredFuncs[2].name /\ out.defines[i].code = 2
    /\ Len(StubsOf(DeclaredFuncs[1].name)) = 0
    /\ Len(StubsOf(DeclaredFuncs[2].name)) = 1

\* C5: for a package of one exported function F1, genM classifies it by the
\* number and kind of its results: three or more results, or two results whose
\* second is not the failure type, append the matching diagnostic and emit no
\* stub; no result gives a void stub that reads and returns nothing; one
\* non-failure result gives a stub that returns the value it read and has no
\* out-parameter; one failure-type result gives a BOOL stub whose only
\* out-parameter is the error and which returns the emptiness of the message.
C5_Normalization ==
    (pkg \in SigPkgs /\ out.kind = "M") =>
        LET f == pkg.scope[1]
            n == Len(f.results)
            ss == StubsOf(f.name)
        IN  /\ n >= 3 =>
                  /\ ss = <<>>
                  /\ <<"too many result values", f.name>> \in Range(g.err)
            /\ (n = 2 /\ ~isErrorType(f.results[2].typ)) =>
                  /\ ss = <<>>
                  /\ <<"second result value must be of type error", f.name>>
                        \in Range(g.err)
            /\ n = 0 =>
                  /\ Len(ss) = 1
                  /\ ss[1].proto.ret = "void"
                  /\ Len(ss[1].proto.params) = Len(f.params)
                  /\ ~HasOp(ss[1], "read")
                  /\ ~HasOp(ss[1], "return") /\ ~HasOp(ss[1], "returnIsEmpty")
            /\ (n = 1 /\ ~isErrorType(f.results[1].typ)) =>
                  /\ Len(ss) = 1
                  /\ ss[1].proto.ret = objcType(pkg.name, f.results[1].typ)
                  /\ Len(ss[1].proto.params) = Len(f.params)
                  /\ HasOp(ss[1], "read") /\ HasOp(ss[1], "return")
                  /\ ~HasOp(ss[1], "returnIsEmpty")
            /\ (n = 1 /\ isErrorType(f.results[1].typ)) =>
                  /\ Len(ss) = 1
                  /\ ss[1].proto.ret = "BOOL"
                  /\ Len(ss[1].proto.params) = Len(f.params) + 1
                  /\ HasOp(ss[1], "returnIsEmpty") /\ ~HasOp(ss[1], "return")
                  /\ ~HasOp(ss[1], "storeOut") /\ ~HasOp(ss[1], "storeOutWrap")
            /\ (n <= 1 \/ (n = 2 /\ isErrorType(f.results[2].typ))) =>
                  /\ <<"too many result values", f.name>> \notin Range(g.err)
                  /\ <<"second result value must be of type error", f.name>>
                        \notin Range(g.err)

C5_Witness ==
    /\ pkg \in SigPkgs
    /\ out.kind = "M"
    /\ Len(pkg.scope[1].results) = 2
    /\ ~isErrorType(pkg.scope[1].results[2].typ)
    /\ out.stubs = <<>>
    /\ ret = "error"

(* Every declaration other than the ones funcSummary rejects. *)
ExpectedStubs ==
    {<<"func", DeclaredFuncs[k].name>> :
        k \in {k \in 1..Len(DeclaredFuncs) : ~funcSummary(pkg.name, DeclaredFuncs[k]).nil}}
    \cup UNION {
        {<<"get", exportedFields(DeclaredStructs[k])[i].name>> :
            i \in 1..Len(exportedFields(DeclaredStructs[k]))}
        \cup {<<"set", exportedFields(DeclaredStructs[k])[i].name>> :
            i \in 1..Len(exportedFields(DeclaredStructs[k]))}
        \cup {<<"method", DeclaredStructs[k].methods[i].name>> :
            i \in {i \in 1..Len(DeclaredStructs[k].methods) :
                     ~funcSummary(pkg.name, DeclaredStructs[k].methods[i]).nil}} :
        k \in 1..Len(DeclaredStructs)}

\* C10: a run over a package with a rejected free function or struct method
\* ends without a panic, has appended a diagnostic, has emitted every other
\* free function, field accessor and method, and returns an error exactly
\* when the diagnostic list is non-empty.
C10_RejectedIsSkipped ==
    out.kind \in {"H", "M"} =>
        /\ ret # "panic"
        /\ (ret = "error") = (g.err # <<>>)
        /\ out.kind = "M" =>
              {<<out.stubs[i].kind, out.stubs[i].name>> : i \in 1..Len(out.stubs)}
                  = ExpectedStubs
        /\ out.kind = "H" =>
              {<<out.decls[i].kind, out.decls[i].name>> : i \in 1..Len(out.decls)}
                  = ExpectedStubs

(***************************************************************************)
(* Properties of calls through the generated binding.                      *)
(***************************************************************************)
UsesBoolSuccess == call.msg # "-"

\* C6: after a call under the boolean-success convention the message the
\* dispatcher wrote is empty exactly when the declaration returned no failure,
\* and the stub reports success exactly when the declaration succeeded.
C6_MessageIffFailure ==
    (UsesBoolSuccess /\ ~call.fault) =>
        /\ (call.msg = "") = (~call.failed)
        /\ (call.ret = TRUE) = (~call.failed)

Events(actor, op) ==
    SelectSeq(call.trace, LAMBDA e : e[1] = actor /\ e[2] = op)

EventIndexes(actor, op) ==
    {i \in 1..Len(call.trace) : call.trace[i][1] = actor /\ call.trace[i][2] = op}

TypesOf(events) == [i \in 1..Len(events) |-> events[i][3]]

(* The declared input parameters of the declaration the latest call names. *)
DeclaredParams ==
    LET k == call.site[1]
        n == call.site[2]
        S == DeclaredStructs[1]
    IN  CASE k = "func" /\ n = "GetS" -> <<>>
          [] k = "func" ->
               (CHOOSE f \in Range(DeclaredFuncs) : f.name = n).params
          [] k = "method" ->
               (CHOOSE m \in Range(S.methods) : m.name = n).params
          [] k = "set" ->
               <<Var("v", (CHOOSE f \in Range(S.fields) : f.name = n).typ)>>
          [] k = "get" -> <<>>

\* C7: in every call the stub starts with empty buffers, writes the receiver
\* ref first (struct members) and then the declared inputs in declared order,
\* sends exactly once after every write and before every read, the handler
\* reads exactly the wire types the stub wrote, in order, and the stub reads
\* exactly the wire types the handler wrote, in order, the failure message last.
C7_SameWireSequence ==
    call.site[1] # "none" =>
        LET send == EventIndexes("stub", "send")
            sw == Events("stub", "write")
            sr == Events("stub", "read")
            recv == IF call.site[1] \in {"get", "set", "method"} THEN 1 ELSE 0
            ps == DeclaredParams
        IN  /\ ~call.fault
            /\ call.trace[1] = <<"stub", "init", "", "in_">>
            /\ call.trace[2] = <<"stub", "init", "", "out_">>
            /\ Cardinality(send) = 1
            /\ \A i \in EventIndexes("stub", "write") : \A j \in send : i < j
            /\ \A i \in EventIndexes("stub", "read") : \A j \in send : j < i
            /\ \A i \in EventIndexes("handler", "read") \cup
                        EventIndexes("handler", "write") :
                  /\ \A j \in send : j < i
                  /\ \A j \in EventIndexes("stub", "read") : i < j
            /\ Len(sw) = recv + Len(ps)
            /\ recv = 1 => (sw[1][3] = "Ref" /\ sw[1][4] = "self.ref")
            /\ \A i \in 1..Len(ps) :
                  /\ sw[recv + i][3] = Wire(objcGen_seqType(ps[i].typ))
                  /\ sw[recv + i][4] \in {ps[i].name, ps[i].name \o ".ref"}
            /\ TypesOf(Events("handler", "read")) = TypesOf(sw)
            /\ TypesOf(sr) = TypesOf(Events("handler", "write"))
            /\ UsesBoolSuccess =>
                  /\ Len(sr) = 2
                  /\ sr[2][4] = "_error"
                  /\ \E i \in EventIndexes("stub", "read") :
                        /\ call.trace[i] = sr[2]
                        /\ call.trace[i + 1][2] = "storeError"

C7_Witness ==
    /\ call.site = <<"method", "TryTwoStrings">>
    /\ ~call.fault
    /\ Len(Events("handler", "read")) = 3
    /\ Len(Events("stub", "read")) = 1

\* C8: at most one wrapper exists per live handle.
C8_OneWrapperPerHandle ==
    \A h \in 1..Len(heap) :
        Cardinality({w \in 1..Len(wrappers) : wrappers[w] = h}) <= 1

\* C9: a getter called on a handle returns the value the latest setter call
\* for that field on that handle wrote, or the constructed value when there
\* was none, and every field of every object holds the value constructed or
\* last set for it: a setter changes no other field and no other object.
C9_ReadAfterWrite ==
    /\ (call.site[1] \in {"get", "set"}) => ~call.fault
    /\ call.site = <<"get", "X">> => call.ret = written[call.self].X
    /\ call.site = <<"get", "Y">> => call.ret = written[call.self].Y
    /\ Len(written) = Len(heap)
    /\ \A h \in 1..Len(heap) :
          heap[h].X = written[h].X /\ heap[h].Y = written[h].Y

C9_Witness ==
    /\ call.site = <<"get", "Y">>
    /\ lastSet = <<call.self, "Y">>
    /\ Len(heap) = 2
    /\ call.ret = written[call.self].Y
    /\ written[call.self].X # written[call.self].Y
    /\ \E h \in 1..Len(heap) : h # call.self /\ written[h].Y # written[call.self].Y

(* The positions of the latest call's trace where the stub does op on arg. *)
StubOps(op, arg) ==
    {i \in 1..Len(call.trace) :
        /\ call.trace[i][1] = "stub"
        /\ call.trace[i][2] = op
        /\ call.trace[i][4] = arg}

(* The positions where the stub uses a buffer or a value decoded from one. *)
BufferUses ==
    {i \in 1..Len(call.trace) :
        /\ call.trace[i][1] = "stub"
        /\ call.trace[i][2] \in {"init", "write", "send", "read", "wrap", "storeError",
                                  "storeOut", "storeOutWrap"}}

Returns ==
    {i \in 1..Len(call.trace) :
        call.trace[i][1] = "stub" /\ call.trace[i][2] \in {"return", "returnIsEmpty"}}

\* C11: in every call through a generated stub, whether it reports success or
\* failure, the request buffer in_ and the response buffer out_ are each
\* released exactly once, after the send and after the last read of the
\* response, and before the stub returns; nothing follows but the return.
C11_BuffersReleased ==
    call.site[1] # "none" =>
        /\ Cardinality(StubOps("init", "in_")) = 1
        /\ Cardinality(StubOps("init", "out_")) = 1
        /\ Cardinality(StubOps("free", "in_")) = 1
        /\ Cardinality(StubOps("free", "out_")) = 1
        /\ \A f \in StubOps("free", "in_") \cup StubOps("free", "out_") :
              /\ \A u \in BufferUses : u < f
              /\ \A r \in Returns : f < r
        /\ \A r \in Returns : r = Len(call.trace)
        /\ Returns = {} =>
              call.trace[Len(call.trace)] \in
                  {<<"stub", "free", "", "in_">>, <<"stub", "free", "", "out_">>}

C11_Witness ==
    /\ call.site = <<"func", "ReturnsError">>
    /\ call.failed
    /\ call.ret = FALSE
    /\ call.errorSet
    /\ Cardinality(StubOps("free", "in_")) = 1
    /\ Cardinality(StubOps("free", "out_")) = 1
    /\ Cardinality(StubOps("read", "_error")) = 1

\* C12: for a package of one exported function F1 with exactly two results,
\* genM emits a stub for F1 exactly when the first result is a value (not the
\* failure type) and the second is the failure type, and when it emits none
\* it has recorded a diagnostic naming F1.
C12_FirstResultIsValue ==
    (pkg \in SigPkgs /\ out.kind = "M" /\ Len(pkg.scope[1].results) = 2) =>
        LET f == pkg.scope[1]
        IN  /\ (StubsOf(f.name) # <<>>)
                  = (~isErrorType(f.results[1].typ) /\ isErrorType(f.results[2].typ))
            /\ StubsOf(f.name) = <<>> =>
                  \E i \in 1..Len(g.err) : g.err[i][2] = f.name

====
